---------------------------- MODULE Spec2Model ----------------------------
(***************************************************************************)
(* of_lldp: LLDP link discovery NApp (src/main.py).                        *)
(*                                                                         *)
(* Main.execute (the Prober) walks the controller's switches and puts one  *)
(* PacketOut per probed interface on controller.buffers.msg_out.           *)
(* Main.notify_uplink_detected (the Correlator) decodes a PacketIn and     *)
(* puts a link event on controller.buffers.app.                            *)
(*                                                                         *)
(* The two share nothing but the inventory, which they only read, so each  *)
(* has its specification: Spec is execute over any inventory that stays    *)
(* as it is, SpecLive is execute beside the threads that change the        *)
(* inventory, SpecCorrelator is the packet-in handler, SpecBuilder is      *)
(* build_lldp_packet_out called on its own.                                *)
(*                                                                         *)
(* Bytes are sequences of naturals 0..255.  The strings the inventory      *)
(* keeps ("00:00:00:00:00:00:00:01", "aa:bb:cc:dd:ee:01") are sequences of *)
(* hexadecimal digits 0..15, the colons being at fixed places.             *)
(***************************************************************************)
EXTENDS Integers, Sequences, FiniteSets, TLC

\* ------------------------------------------------------------------ bounds
NSwitch == 2
MaxTicks == 2
MaxChanges == 2
MaxEvents == 2
MaxCalls == 1

\* --------------------------------------------------------------- constants
LocalPort == 65534
EtherTypeLLDP == 35020
NoVersion == 0

Objs == 1..NSwitch
Versions == {NoVersion, 1, 4, 5}
Ports == {3, 300, LocalPort}
InPorts == {7}

Min(a, b) == IF a < b THEN a ELSE b

\* Python's buff[a:b]: 0-based, half open, clamped to the buffer.
Slice(buff, a, b) == SubSeq(buff, a + 1, Min(b, Len(buff)))

\* ------------------------------------------------------------ pyof codecs
StructError == [err |-> TRUE]

UBInt8pack(n) == <<n % 256>>

UBInt16pack(n) == <<(n \div 256) % 256, n % 256>>

UBInt16unpack(buff) ==
    IF Len(buff) < 2 THEN StructError
    ELSE [err |-> FALSE, value |-> buff[1] * 256 + buff[2]]

\* int(x, 16) of every colon-separated pair of digits, struct.pack('!nB').
HexPack(digits) ==
    [i \in 1..(Len(digits) \div 2) |-> digits[2 * i - 1] * 16 + digits[2 * i]]

\* "%.2x" of every byte, joined by colons.
HexFormat(buff) ==
    [j \in 1..(2 * Len(buff)) |->
        IF j % 2 = 1 THEN buff[(j + 1) \div 2] \div 16 ELSE buff[j \div 2] % 16]

DPIDpack(value) == HexPack(value)

DPIDunpack(buff) ==
    IF Len(buff) < 8 THEN StructError
    ELSE [err |-> FALSE, value |-> HexFormat(SubSeq(buff, 1, 8))]

TLVpack(tlv_type, value) == UBInt16pack(tlv_type * 512 + Len(value)) \o value

\* LLDP.pack(): chassis_id (type 1, sub type 7), port_id (type 2, sub type
\* 7), ttl (type 3, 120 s), end (type 0).
LLDPpack(chassis_sub_value, port_sub_value) ==
    TLVpack(1, UBInt8pack(7) \o chassis_sub_value)
        \o TLVpack(2, UBInt8pack(7) \o port_sub_value)
        \o TLVpack(3, UBInt16pack(120))
        \o TLVpack(0, <<>>)

\* One TLV at `offset` (0-based): the 2-byte header, then with_sub_type's
\* 1-byte sub type; the value is whatever the buffer holds of `length`.
TLVunpack(buff, offset, with_sub_type) ==
    LET header == UBInt16unpack(Slice(buff, offset, offset + 2))
    IN  IF header.err THEN StructError
        ELSE LET length == header.value % 512
                 begin == offset + 2
                 end == begin + length
             IN  IF with_sub_type /\ Len(Slice(buff, begin, begin + 1)) < 1
                 THEN StructError
                 ELSE [err |-> FALSE,
                       tlv_type |-> header.value \div 512,
                       sub_value |-> IF with_sub_type
                                     THEN Slice(buff, begin + 1, end)
                                     ELSE Slice(buff, begin, end),
                       next |-> end]

LLDPunpack(buff) ==
    LET chassis_id == TLVunpack(buff, 0, TRUE)
    IN  IF chassis_id.err THEN StructError
        ELSE LET port_id == TLVunpack(buff, chassis_id.next, TRUE)
             IN  IF port_id.err THEN StructError
                 ELSE LET ttl == TLVunpack(buff, port_id.next, FALSE)
                      IN  IF ttl.err THEN StructError
                          ELSE LET end == TLVunpack(buff, ttl.next, FALSE)
                               IN  IF end.err THEN StructError
                                   ELSE [err |-> FALSE,
                                         chassis_id |-> chassis_id.sub_value,
                                         port_id |-> port_id.sub_value]

Ethernetpack(destination, source, ether_type, data) ==
    HexPack(destination) \o HexPack(source) \o UBInt16pack(ether_type) \o data

Ethernetunpack(buff) ==
    IF Len(buff) < 14 THEN StructError
    ELSE [err |-> FALSE,
          destination |-> HexFormat(SubSeq(buff, 1, 6)),
          source |-> HexFormat(SubSeq(buff, 7, 12)),
          ether_type |-> buff[13] * 256 + buff[14],
          data |-> SubSeq(buff, 15, Len(buff))]

\* constants.LLDP_MULTICAST_MAC, "01:80:c2:00:00:0e".
LLDP_MULTICAST_MAC == <<0, 1, 8, 0, 12, 2, 0, 0, 0, 0, 0, 14>>

\* ------------------------------------------------- build_lldp_packet_out
None == [none |-> TRUE]

build_defaulting_to_v1(version, port_number, data) ==
    LET family == IF version = 4 THEN 4 ELSE 1
    IN  [none |-> FALSE,
         family |-> family,
         actions |-> <<[family |-> family, port |-> port_number]>>,
         data |-> data]

build_mixed_families(version, port_number, data) ==
    IF version \in {1, 4}
    THEN [none |-> FALSE,
          family |-> version,
          actions |-> <<[family |-> 1, port |-> port_number]>>,
          data |-> data]
    ELSE None

\* Lines 119-136.
build_lldp_packet_out(version, port_number, data) ==
    IF version \in {1, 4}
    THEN [none |-> FALSE,
          family |-> version,
          actions |-> <<[family |-> version, port |-> port_number]>>,
          data |-> data]
    ELSE None


\* -------------------------------------------------------------- inventory
\* A dict keeps insertion order; a deleted entry leaves its slot behind, so
\* an iterator's position is a slot index.
DictLen(d) == Cardinality({k \in 1..Len(d) : d[k].live})

LivePorts(d) == {d[k].port_number : k \in {j \in 1..Len(d) : d[j].live}}

Hex4(n) == <<(n \div 4096) % 16, (n \div 256) % 16, (n \div 16) % 16, n % 16>>

\* switch.dpid of the o-th switch object, in the canonical string form.
DpidOf(o) == <<0, 0, 0, 0, 0, 0, 0, 0, 0, 0, 0, 0>> \o Hex4(o * 4113)

\* A well-formed dpid no switch object has.
UnknownDpid == <<0, 0, 0, 0, 0, 0, 0, 0, 0, 0, 0, 0>> \o Hex4(65535)

\* interface.address of port p of the o-th switch object.
AddressOf(o, p) == <<10, 10, 11, 11, 12, 12, 0, o>> \o Hex4(p)

Interface(o, p) == [port_number |-> p, address |-> AddressOf(o, p), live |-> TRUE]

InterfacesOf(o, ports) == [k \in 1..Len(ports) |-> Interface(o, ports[k])]

PortLists == {<<>>, <<LocalPort, 3>>, <<3, 300>>}

Switch(o, connected, version, ports) ==
    [dpid |-> DpidOf(o), connected |-> connected, version |-> version,
     interfaces |-> InterfacesOf(o, ports)]

\* controller.switches with the first k switch objects registered.
Registered(k) == [i \in 1..k |-> i]

VARIABLES
    switches,    \* controller.switches: the registered switch objects, in dict order
    sw,          \* the switch objects: dpid, is_connected(), version, interfaces
    msg_out,     \* controller.buffers.msg_out
    app,         \* controller.buffers.app
    pc,          \* execute: "idle", "switch" (line 26), "iface" (line 35), "raised"
    snapshot,    \* execute's local list `switches` (line 25)
    si,          \* index of the current switch in snapshot
    of_version,  \* execute's local of_version
    it_len,      \* the interfaces iterator: dict size when it was created
    it_pos,      \* the interfaces iterator: last slot it yielded
    ticks,       \* ticks started
    tick_base,   \* Len(msg_out) when the current (or last) tick started
    at_start,    \* history: the inventory when the current (last) tick started
    touched,     \* history: the switch objects changed since that tick started
    changes,     \* inventory changes made by the collaborator
    events,      \* inbound events handled
    last,        \* the last inbound event handled and what the handler did
    hs,          \* the handler threads, one per connection: position and locals
    calls,       \* direct calls of build_lldp_packet_out
    built        \* the last direct call: arguments and result

inventory == <<switches, sw>>
prober == <<pc, snapshot, si, of_version, it_len, it_pos, ticks, tick_base>>
correlator == <<app, events, last, hs>>
builder == <<calls, built>>
history == <<at_start, touched>>
vars == <<switches, sw, msg_out, app, pc, snapshot, si, of_version, it_len,
          it_pos, ticks, tick_base, at_start, touched, changes, events, last,
          hs, calls, built>>

NoEvent == [data |-> <<>>, source |-> 0, in_port |-> 0]

\* A connection no handler runs for.
NoHandler ==
    [pc |-> "none", event |-> NoEvent, dpid |-> <<>>, port_id |-> <<>>,
     switch_b |-> 0, port_b |-> -1]

InitRest ==
    /\ msg_out = <<>>
    /\ app = <<>>
    /\ pc = "idle"
    /\ snapshot = <<>>
    /\ si = 0
    /\ of_version = NoVersion
    /\ it_len = 0
    /\ it_pos = 0
    /\ ticks = 0
    /\ tick_base = 0
    /\ at_start = [switches |-> <<>>, sw |-> <<>>]
    /\ touched = {}
    /\ changes = 0
    /\ events = 0
    /\ last = [event |-> NoEvent, outcome |-> "none", dpid |-> <<>>,
               port_b |-> -1, app_before |-> <<>>]
    /\ hs = [o \in Objs |-> NoHandler]
    /\ calls = 0
    /\ built = [version |-> NoVersion, port_number |-> 0, data |-> <<>>,
                result |-> None]

\* Any inventory: each switch object connected or not, with any version
\* (or none) and any of the interface dicts; the last one may be unknown to
\* the controller.
Init ==
    /\ switches \in {Registered(k) : k \in {NSwitch - 1, NSwitch}}
    /\ \E c \in [Objs -> BOOLEAN], v \in [Objs -> Versions],
          ports \in [Objs -> PortLists] :
            sw = [o \in Objs |-> Switch(o, c[o], v[o], ports[o])]
    /\ InitRest

\* ------------------------------------------------------------ Main.execute
ProbeFrameShortPort(dpid, port_number, address) ==
    Ethernetpack(LLDP_MULTICAST_MAC, address, EtherTypeLLDP,
                 LLDPpack(DPIDpack(dpid), UBInt8pack(port_number)))

\* Lines 41-53: the LLDP body and the Ethernet frame around it.
ProbeFrame(dpid, port_number, address) ==
    Ethernetpack(LLDP_MULTICAST_MAC, address, EtherTypeLLDP,
                 LLDPpack(DPIDpack(dpid), UBInt16pack(port_number)))

PublishTwice(queue, s, packet_out) ==
    IF packet_out # None
    THEN queue \o <<[destination |-> s, message |-> packet_out],
                    [destination |-> s, message |-> packet_out]>>
    ELSE queue

\* Lines 55-60: the event put on msg_out, unless there is no command.
Publish(queue, s, packet_out) ==
    IF packet_out # None
    THEN Append(queue, [destination |-> s, message |-> packet_out])
    ELSE queue

\* Lines 28-32.
VersionOf(s) == sw[s].version

EligibleVersionOnly(s) == VersionOf(s) \in {1, 4}

Eligible(s) == sw[s].connected /\ VersionOf(s) \in {1, 4}

ProbedAny(port_number) == TRUE

\* Line 38.
Probed(port_number) == port_number # LocalPort

\* The next live slot after `pos`, 0 when the iterator is exhausted.
NextSlot(d, pos) ==
    LET rest == {k \in (pos + 1)..Len(d) : d[k].live}
    IN  IF rest = {} THEN 0 ELSE CHOOSE k \in rest : \A j \in rest : k <= j

\* A list that leaves out the switches an earlier tick has probed.
ListUnprobedSwitches ==
    SelectSeq(switches,
              LAMBDA s : \A i \in 1..Len(msg_out) : msg_out[i].destination # s)

\* Line 25: a new list of the switch objects registered now.
ListSwitches == switches

\* Line 25.
TickStart ==
    /\ pc = "idle"
    /\ ticks < MaxTicks
    /\ snapshot' = ListSwitches
    /\ si' = 1
    /\ pc' = "switch"
    /\ ticks' = ticks + 1
    /\ tick_base' = Len(msg_out)
    /\ at_start' = [switches |-> switches, sw |-> sw]
    /\ touched' = {}
    /\ UNCHANGED <<inventory, msg_out, of_version, it_len, it_pos, changes,
                   correlator, builder>>

\* Lines 26-35: the next switch of the list; an eligible one gets an
\* iterator over its interfaces, any other is skipped.
TickSwitch ==
    /\ pc = "switch"
    /\ si <= Len(snapshot)
    /\ LET s == snapshot[si]
       IN  IF Eligible(s)
           THEN /\ of_version' = VersionOf(s)
                /\ it_len' = DictLen(sw[s].interfaces)
                /\ it_pos' = 0
                /\ pc' = "iface"
                /\ si' = si
           ELSE /\ si' = si + 1
                /\ UNCHANGED <<of_version, it_len, it_pos, pc>>
    /\ UNCHANGED <<inventory, msg_out, snapshot, ticks, tick_base, history,
                   changes,
                   correlator, builder>>

\* Lines 35-63: one step of the interfaces loop.  The iterator raises
\* RuntimeError when the dict's size is not what it was, and nothing in
\* execute catches it.
TickInterface ==
    /\ pc = "iface"
    /\ LET s == snapshot[si]
           d == sw[s].interfaces
           k == NextSlot(d, it_pos)
       IN  IF DictLen(d) # it_len
           THEN /\ pc' = "raised"
                /\ UNCHANGED <<msg_out, si, it_pos>>
           ELSE IF k = 0
           THEN /\ pc' = "switch"
                /\ si' = si + 1
                /\ UNCHANGED <<msg_out, it_pos>>
           ELSE /\ it_pos' = k
                /\ msg_out' =
                     IF Probed(d[k].port_number)
                     THEN Publish(msg_out, s,
                            build_lldp_packet_out(of_version, d[k].port_number,
                                ProbeFrame(sw[s].dpid, d[k].port_number,
                                           d[k].address)))
                     ELSE msg_out
                /\ UNCHANGED <<pc, si>>
    /\ UNCHANGED <<inventory, snapshot, of_version, it_len, ticks, tick_base,
                   history,
                   changes, correlator, builder>>

\* The list is exhausted: execute returns.
TickDone ==
    /\ pc = "switch"
    /\ si > Len(snapshot)
    /\ pc' = "idle"
    /\ snapshot' = <<>>
    /\ si' = 0
    /\ of_version' = NoVersion
    /\ it_len' = 0
    /\ it_pos' = 0
    /\ UNCHANGED <<inventory, msg_out, ticks, tick_base, history, changes,
                   correlator,
                   builder>>

Next == TickStart \/ TickSwitch \/ TickInterface \/ TickDone

Spec == Init /\ [][Next]_vars


\* ------------------------------------------------------ inventory changes
\* The inventory belongs to a collaborator, which changes it in its own
\* threads: execute may be anywhere when it does.
Changed(o) ==
    /\ changes < MaxChanges
    /\ changes' = changes + 1
    /\ touched' = touched \cup {o}
    /\ UNCHANGED <<msg_out, prober, at_start, correlator, builder>>

SetConnected ==
    \E o \in Objs :
        /\ sw' = [sw EXCEPT ![o].connected = ~ sw[o].connected]
        /\ UNCHANGED switches
        /\ Changed(o)

SetVersion ==
    \E o \in Objs, v \in Versions :
        /\ v # sw[o].version
        /\ sw' = [sw EXCEPT ![o].version = v]
        /\ UNCHANGED switches
        /\ Changed(o)

AddInterface ==
    \E o \in Objs, p \in Ports :
        /\ p \notin LivePorts(sw[o].interfaces)
        /\ sw' = [sw EXCEPT ![o].interfaces = Append(@, Interface(o, p))]
        /\ UNCHANGED switches
        /\ Changed(o)

RemoveInterface ==
    \E o \in Objs, p \in Ports :
        /\ p \in LivePorts(sw[o].interfaces)
        /\ sw' = [sw EXCEPT ![o].interfaces =
                    [k \in 1..Len(@) |->
                        IF @[k].port_number = p /\ @[k].live
                        THEN [@[k] EXCEPT !.live = FALSE] ELSE @[k]]]
        /\ UNCHANGED switches
        /\ Changed(o)

AddSwitch ==
    \E o \in Objs :
        /\ \A i \in 1..Len(switches) : switches[i] # o
        /\ switches' = Append(switches, o)
        /\ UNCHANGED sw
        /\ Changed(o)

RemoveSwitch ==
    \E o \in Objs :
        /\ \E i \in 1..Len(switches) : switches[i] = o
        /\ switches' = SelectSeq(switches, LAMBDA x : x # o)
        /\ UNCHANGED sw
        /\ Changed(o)

\* Every switch registered and connected, under the two supported versions
\* in turn.
InitLive ==
    /\ switches = Registered(NSwitch)
    /\ sw = [o \in Objs |->
                Switch(o, TRUE, IF o % 2 = 1 THEN 4 ELSE 1,
                       IF o % 2 = 1 THEN <<3, 300>> ELSE <<LocalPort, 3>>)]
    /\ InitRest

NextLive ==
    \/ TickStart \/ TickSwitch \/ TickInterface \/ TickDone
    \/ SetConnected \/ SetVersion \/ AddInterface \/ RemoveInterface
    \/ AddSwitch \/ RemoveSwitch

SpecLive == InitLive /\ [][NextLive]_vars

\* ------------------------------------------- Main.notify_uplink_detected
unpack_swallowing_errors(desired_class, data) ==
    CASE desired_class = "Ethernet" ->
            IF Ethernetunpack(data).err
            THEN [err |-> FALSE, destination |-> <<>>, source |-> <<>>,
                  ether_type |-> 0, data |-> <<>>]
            ELSE Ethernetunpack(data)
      [] desired_class = "LLDP" -> LLDPunpack(data)
      [] desired_class = "DPID" -> DPIDunpack(data)
      [] desired_class = "UBInt16" -> UBInt16unpack(data)

\* Main.unpack_non_empty(desired_class, data): obj.unpack(data).
unpack_non_empty(desired_class, data) ==
    CASE desired_class = "Ethernet" -> Ethernetunpack(data)
      [] desired_class = "LLDP" -> LLDPunpack(data)
      [] desired_class = "DPID" -> DPIDunpack(data)
      [] desired_class = "UBInt16" -> UBInt16unpack(data)

NoSwitch == 0

\* controller.get_switch_by_dpid: switches.get(dpid), None on a miss.
get_switch_by_dpid(dpid) ==
    LET found == {i \in 1..Len(switches) : sw[switches[i]].dpid = dpid}
    IN  IF found = {} THEN NoSwitch ELSE switches[CHOOSE i \in found : TRUE]

LinkSwapped(switch_a, port_a, switch_b, port_b) ==
    [switch_a |-> [id |-> sw[switch_b].dpid, port |-> port_b],
     switch_b |-> [id |-> sw[switch_a].dpid, port |-> port_a]]

\* Lines 92-94.
Link(switch_a, port_a, switch_b, port_b) ==
    [switch_a |-> [id |-> sw[switch_a].dpid, port |-> port_a],
     switch_b |-> [id |-> sw[switch_b].dpid, port |-> port_b]]

PutOnce(queue, event_out) ==
    IF \E i \in 1..Len(queue) : queue[i] = event_out
    THEN queue ELSE Append(queue, event_out)

\* Line 97: controller.buffers.app.put(event_out).
Put(queue, event_out) == Append(queue, event_out)

IsLLDPAlways(ethernet) == TRUE

\* Line 75.
IsLLDP(ethernet) == ethernet.ether_type = EtherTypeLLDP

\* How a run of the handler ends: the app queue it leaves, and its locals
\* dpid.value and port_b (<<>> and -1 while unset).
Ended(outcome, queue, dpid, port_b) ==
    [outcome |-> outcome, app |-> queue, dpid |-> dpid, port_b |-> port_b]

\* What the handler does with `event`.  "ignored" is the return of line
\* 75's false branch, "dropped" the return of line 84, "put" the end after
\* line 97; "struct.error" (lines 74 and 90) and "AttributeError" (line 94,
\* None has no id) are exceptions nothing in the handler catches.
Handle(event) ==
    LET ethernet == unpack_non_empty("Ethernet", event.data)
    IN  IF ethernet.err THEN Ended("struct.error", app, <<>>, -1)
        ELSE IF ~ IsLLDP(ethernet) THEN Ended("ignored", app, <<>>, -1)
        ELSE
        LET lldp == unpack_non_empty("LLDP", ethernet.data)
        IN  IF lldp.err THEN Ended("dropped", app, <<>>, -1)
            ELSE
            LET dpid == unpack_non_empty("DPID", lldp.chassis_id)
            IN  IF dpid.err THEN Ended("dropped", app, <<>>, -1)
                ELSE
                LET switch_a == event.source
                    port_a == event.in_port
                    switch_b == get_switch_by_dpid(dpid.value)
                    port_b == unpack_non_empty("UBInt16", lldp.port_id)
                IN  IF port_b.err
                    THEN Ended("struct.error", app, dpid.value, -1)
                    ELSE IF switch_b = NoSwitch
                    THEN Ended("AttributeError", app, dpid.value, port_b.value)
                    ELSE Ended("put",
                               Put(app, Link(switch_a, port_a, switch_b,
                                             port_b.value)),
                               dpid.value, port_b.value)

\* The frames a packet-in may carry.
ForeignMac == <<0, 0, 1, 1, 2, 2, 3, 3, 4, 4, 5, 5>>

\* The frame a switch sends out for the command execute builds for port p
\* of switch object o under version v.
OwnFrame(o, p, v) ==
    build_lldp_packet_out(v, p, ProbeFrame(DpidOf(o), p, AddressOf(o, p))).data

ProbePorts == (Ports \cup {65535}) \ {LocalPort}

OwnFrames == {OwnFrame(o, p, v) : o \in Objs, p \in ProbePorts, v \in {1, 4}}

LLDPBodies ==
    { LLDPpack(DPIDpack(UnknownDpid), UBInt16pack(3)),
      LLDPpack(HexPack(ForeignMac), UBInt16pack(3)),
      LLDPpack(DPIDpack(DpidOf(1)), UBInt8pack(3)),
      LLDPpack(DPIDpack(DpidOf(1)), <<>>),
      SubSeq(LLDPpack(DPIDpack(DpidOf(1)), UBInt16pack(3)), 1, 16),
      <<>>,
      <<222, 173, 190, 239>> }

InboundFrames ==
    OwnFrames
    \cup {Ethernetpack(LLDP_MULTICAST_MAC, ForeignMac, EtherTypeLLDP, body) :
            body \in LLDPBodies}
    \cup {Ethernetpack(ForeignMac, ForeignMac, ether_type, body) :
            ether_type \in {2048, 35021, 52360},
            body \in {<<>>, <<222, 173, 190, 239>>,
                      LLDPpack(DPIDpack(DpidOf(1)), UBInt16pack(3))}}
    \cup {<<>>, <<1, 128, 194>>}

\* One packet-in event, handled from beginning to end.
notify_uplink_detected ==
    /\ events < MaxEvents
    /\ \E data \in InboundFrames, source \in Objs, in_port \in InPorts :
         LET event == [data |-> data, source |-> source, in_port |-> in_port]
             done == Handle(event)
         IN  /\ app' = done.app
             /\ last' = [event |-> event, outcome |-> done.outcome,
                         dpid |-> done.dpid, port_b |-> done.port_b,
                         app_before |-> app]
    /\ events' = events + 1
    /\ UNCHANGED <<inventory, msg_out, prober, history, changes, builder, hs>>

\* Only controller.switches matters to the handler: any switch object may
\* be the receiver, the last one may be unknown to the controller.
InitCorrelator ==
    /\ switches \in {Registered(k) : k \in {NSwitch - 1, NSwitch}}
    /\ sw = [o \in Objs |-> Switch(o, TRUE, 4, <<3, 300>>)]
    /\ InitRest

NextCorrelator == notify_uplink_detected

SpecCorrelator == InitCorrelator /\ [][NextCorrelator]_vars

\* ------------------------------- notify_uplink_detected, run concurrently
\* The controller runs the handler in a thread of its own for every
\* packet-in.  A handler's variables are locals of its call; what it shares
\* with the others is controller.switches, which it reads at line 89, and
\* the app queue, whose put is atomic.
ConcurrentPorts == {3, 300}

ConcurrentInPorts == {7, 8}

\* A probe arrives on the connection of switch object o.
Arrive ==
    \E o \in Objs, A \in Objs, p \in ConcurrentPorts, v \in {1, 4},
       q \in ConcurrentInPorts :
        /\ hs[o].pc = "none"
        /\ hs' = [hs EXCEPT ![o] =
                    [NoHandler EXCEPT
                        !.pc = "start",
                        !.event = [data |-> OwnFrame(A, p, v), source |-> o,
                                   in_port |-> q]]]
        /\ UNCHANGED <<inventory, msg_out, prober, history, changes, builder,
                       app,
                       events, last>>

LocalsOnInstance(o) == hs[CHOOSE x \in Objs : hs[x].pc = hs[o].pc]

\* The locals of the call that handles the event of connection o.
Locals(o) == hs[o]

\* Lines 74-87.
HandlerDecode ==
    \E o \in Objs :
        /\ hs[o].pc = "start"
        /\ LET ethernet == unpack_non_empty("Ethernet", Locals(o).event.data)
               lldp == unpack_non_empty("LLDP", ethernet.data)
               dpid == unpack_non_empty("DPID", lldp.chassis_id)
           IN  hs' = [hs EXCEPT ![o] =
                 IF ethernet.err THEN [@ EXCEPT !.pc = "raised"]
                 ELSE IF ~ IsLLDP(ethernet) \/ lldp.err \/ dpid.err
                 THEN [@ EXCEPT !.pc = "returned"]
                 ELSE [@ EXCEPT !.pc = "lookup", !.dpid = dpid.value,
                                !.port_id = lldp.port_id]]
        /\ UNCHANGED <<inventory, msg_out, prober, history, changes, builder,
                       app,
                       events, last>>

\* Lines 89-90.
HandlerLookup ==
    \E o \in Objs :
        /\ hs[o].pc = "lookup"
        /\ LET switch_b == get_switch_by_dpid(Locals(o).dpid)
               port_b == unpack_non_empty("UBInt16", Locals(o).port_id)
           IN  hs' = [hs EXCEPT ![o] =
                 IF port_b.err THEN [@ EXCEPT !.pc = "raised"]
                 ELSE [@ EXCEPT !.pc = "put", !.switch_b = switch_b,
                                !.port_b = port_b.value]]
        /\ UNCHANGED <<inventory, msg_out, prober, history, changes, builder,
                       app,
                       events, last>>

\* Lines 92-97.
HandlerPut ==
    \E o \in Objs :
        /\ hs[o].pc = "put"
        /\ IF Locals(o).switch_b = NoSwitch
           THEN /\ hs' = [hs EXCEPT ![o].pc = "raised"]
                /\ UNCHANGED app
           ELSE /\ app' = Put(app, Link(Locals(o).event.source,
                                        Locals(o).event.in_port,
                                        Locals(o).switch_b, Locals(o).port_b))
                /\ hs' = [hs EXCEPT ![o].pc = "done"]
        /\ UNCHANGED <<inventory, msg_out, prober, history, changes, builder,
                       events,
                       last>>

\* Every switch registered and connected.
InitConcurrent ==
    /\ switches = Registered(NSwitch)
    /\ sw = [o \in Objs |-> Switch(o, TRUE, 4, <<3, 300>>)]
    /\ InitRest

NextConcurrent == Arrive \/ HandlerDecode \/ HandlerLookup \/ HandlerPut

SpecConcurrent == InitConcurrent /\ [][NextConcurrent]_vars

\* ------------------------------------- build_lldp_packet_out, called alone
CallVersions == Versions \cup {2, 3, 6}

CallData == {<<>>, <<222, 173, 190, 239>>,
             ProbeFrame(DpidOf(1), 3, AddressOf(1, 3))}

BuildCall ==
    /\ calls < MaxCalls
    /\ \E version \in CallVersions, port_number \in Ports \cup InPorts,
          data \in CallData :
         built' = [version |-> version, port_number |-> port_number,
                   data |-> data,
                   result |-> build_lldp_packet_out(version, port_number, data)]
    /\ calls' = calls + 1
    /\ UNCHANGED <<inventory, msg_out, prober, history, changes, correlator>>

NextBuilder == BuildCall

SpecBuilder == InitCorrelator /\ [][NextBuilder]_vars


\* ================================================================ claims
\* What a receiver reads in a frame; <<>> and -1 when it does not decode.
FrameEthernet(data) ==
    LET ethernet == Ethernetunpack(data)
    IN  IF ethernet.err
        THEN [destination |-> <<>>, source |-> <<>>, ether_type |-> -1,
              data |-> <<>>]
        ELSE ethernet

FrameChassisId(data) ==
    LET lldp == LLDPunpack(FrameEthernet(data).data)
    IN  IF lldp.err THEN <<>>
        ELSE LET dpid == DPIDunpack(lldp.chassis_id)
             IN  IF dpid.err THEN <<>> ELSE dpid.value

FramePortId(data) ==
    LET lldp == LLDPunpack(FrameEthernet(data).data)
    IN  IF lldp.err THEN -1
        ELSE LET port == UBInt16unpack(lldp.port_id)
             IN  IF port.err THEN -1 ELSE port.value

\* The commands of the current (or last) tick, as indices of msg_out.
TickOut == (tick_base + 1)..Len(msg_out)

TickOver == pc = "idle" /\ ticks > 0

Supported(o) == sw[o].connected /\ sw[o].version \in {1, 4}

OutPort(i) == msg_out[i].message.actions[1].port

\* C1: no command on msg_out is addressed to a switch that is not
\* connected or whose version is absent or not 0x01/0x04, whatever its
\* interfaces; execute raises nothing, and when the tick is over every
\* registered supported switch with a port to probe has got a command in
\* it, wherever the skipped switches stand in the list.
C1_UnsupportedSwitchSkipped ==
    /\ pc # "raised"
    /\ \A i \in 1..Len(msg_out) :
          /\ sw[msg_out[i].destination].connected
          /\ sw[msg_out[i].destination].version # NoVersion
          /\ sw[msg_out[i].destination].version \in {1, 4}
    /\ TickOver =>
          \A k \in 1..Len(switches) :
              (/\ Supported(switches[k])
               /\ LivePorts(sw[switches[k]].interfaces) \ {LocalPort} # {})
              => \E i \in TickOut : msg_out[i].destination = switches[k]

\* A tick is over in which a switch with interfaces was skipped and a
\* switch after it in the list was probed.
C1_Witness ==
    /\ TickOver
    /\ \E k \in 1..Len(switches), j \in 1..Len(switches) :
          /\ k < j
          /\ ~ Supported(switches[k])
          /\ DictLen(sw[switches[k]].interfaces) > 0
          /\ \E i \in TickOut : msg_out[i].destination = switches[j]

\* C2: no command on msg_out, after any number of ticks, outputs to port
\* 65534 or carries 65534 as LLDP port-id; and when a tick is over, every
\* other port of a supported switch that has port 65534 has been probed.
C2_LocalPortNeverProbed ==
    /\ \A i \in 1..Len(msg_out) :
          /\ \A a \in 1..Len(msg_out[i].message.actions) :
                msg_out[i].message.actions[a].port # 65534
          /\ FramePortId(msg_out[i].message.data) # 65534
    /\ TickOver =>
          \A k \in 1..Len(switches) :
              LET ports == LivePorts(sw[switches[k]].interfaces)
              IN  (Supported(switches[k]) /\ 65534 \in ports) =>
                    \A p \in ports \ {65534} :
                        \E i \in TickOut : /\ msg_out[i].destination = switches[k]
                                           /\ OutPort(i) = p

\* Two ticks are over, and a switch whose first interface is port 65534
\* has had its next interface probed.
C2_Witness ==
    /\ TickOver
    /\ ticks = 2
    /\ \E k \in 1..Len(switches) :
          LET d == sw[switches[k]].interfaces
          IN  /\ Len(d) > 1
              /\ d[1].port_number = 65534
              /\ \E i \in TickOut : /\ msg_out[i].destination = switches[k]
                                    /\ OutPort(i) = d[2].port_number

\* The (switch, port) pairs a tick has to probe.
EligiblePairs ==
    {pair \in Objs \X Ports :
        /\ \E k \in 1..Len(switches) : switches[k] = pair[1]
        /\ sw[pair[1]].connected
        /\ sw[pair[1]].version \in {1, 4}
        /\ pair[2] \in LivePorts(sw[pair[1]].interfaces)
        /\ pair[2] # 65534}

\* C3: when a tick is over it has published exactly one command for every
\* eligible (switch, port) pair and no other; every command has a single
\* output action, is addressed to the switch whose dpid is the frame's
\* chassis-id, outputs to the port that is the frame's port-id, and its
\* Ethernet header has the interface's MAC as source, the LLDP multicast
\* MAC as destination and the LLDP ethertype.
C3_OneCommandPerEligiblePair ==
    /\ TickOver =>
          /\ \A pair \in EligiblePairs :
                Cardinality({i \in TickOut : /\ msg_out[i].destination = pair[1]
                                             /\ OutPort(i) = pair[2]}) = 1
          /\ Cardinality(TickOut) = Cardinality(EligiblePairs)
    /\ \A i \in 1..Len(msg_out) :
          LET command == msg_out[i]
              frame == FrameEthernet(command.message.data)
          IN  /\ <<command.destination, OutPort(i)>> \in EligiblePairs
              /\ Len(command.message.actions) = 1
              /\ FrameChassisId(command.message.data) = sw[command.destination].dpid
              /\ FramePortId(command.message.data) = OutPort(i)
              /\ \E k \in 1..Len(sw[command.destination].interfaces) :
                    LET interface == sw[command.destination].interfaces[k]
                    IN  /\ interface.port_number = OutPort(i)
                        /\ frame.source = interface.address
              /\ frame.destination = LLDP_MULTICAST_MAC
              /\ frame.ether_type = 35020

\* A tick is over that probed two switches, one of them on two ports.
C3_Witness ==
    /\ TickOver
    /\ Cardinality(EligiblePairs) > 2
    /\ Cardinality({msg_out[i].destination : i \in TickOut}) > 1
    /\ \E pair \in EligiblePairs : pair[2] = 300


\* ------------------------------------------------------------ Correlator
Handled == events > 0

IsRegistered(o) == \E k \in 1..Len(switches) : switches[k] = o

LastLLDP ==
    /\ ~ Ethernetunpack(last.event.data).err
    /\ Ethernetunpack(last.event.data).ether_type = 35020

\* C4: the frame execute builds for dpid D, port P (not 65534) and version
\* 0x01 or 0x04, handled as the data of an inbound event, is decoded by the
\* handler with dpid.value = D and port_b = P.
C4_ProbeRoundTrip ==
    Handled =>
        \A o \in Objs, p \in ProbePorts, v \in {1, 4} :
            last.event.data = OwnFrame(o, p, v) =>
                /\ last.dpid = DpidOf(o)
                /\ last.port_b = p

\* The handler has decoded a probe of a port above 255 from a dpid with
\* more than one non-zero digit.
C4_Witness ==
    /\ Handled
    /\ \E o \in Objs, v \in {1, 4} : last.event.data = OwnFrame(o, 300, v)
    /\ last.port_b = 300
    /\ last.dpid # <<>>

\* C5: a probe of switch A's port P arriving at switch B on port Q, with A
\* registered under its dpid, makes the handler put exactly one link event
\* on app: switch_a is B's id with Q, switch_b is A's id with P.
C5_LinkEnds ==
    Handled =>
        \A A \in Objs, P \in ProbePorts, v \in {1, 4} :
            (last.event.data = OwnFrame(A, P, v) /\ IsRegistered(A)) =>
                /\ last.outcome = "put"
                /\ app = Append(last.app_before,
                        [switch_a |-> [id |-> sw[last.event.source].dpid,
                                       port |-> last.event.in_port],
                         switch_b |-> [id |-> sw[A].dpid, port |-> P]])

\* A probe of one switch has arrived at another, after an earlier event.
C5_Witness ==
    /\ events = 2
    /\ last.outcome = "put"
    /\ \E A \in Objs, v \in {1, 4} :
          /\ last.event.data = OwnFrame(A, 3, v)
          /\ A # last.event.source
    /\ Len(app) = Len(last.app_before) + 1

\* C6: an inbound event whose ethertype is not LLDP, whatever its payload,
\* is ignored: no link event, app as it was, no error.
C6_NonLLDPIgnored ==
    (/\ Handled
     /\ ~ Ethernetunpack(last.event.data).err
     /\ Ethernetunpack(last.event.data).ether_type # 35020) =>
        /\ last.outcome = "ignored"
        /\ app = last.app_before

\* A non-LLDP frame whose payload is a well-formed probe body was ignored.
C6_Witness ==
    /\ Handled
    /\ last.outcome = "ignored"
    /\ ~ LLDPunpack(Ethernetunpack(last.event.data).data).err
    /\ app = last.app_before

\* C7 (as claimed): an LLDP frame whose body, chassis-id or port-id does not
\* decode is dropped: no link event and no uncaught error.
C7_ForeignLLDPDropped ==
    (/\ Handled
     /\ LastLLDP
     /\ LET lldp == LLDPunpack(Ethernetunpack(last.event.data).data)
        IN  \/ lldp.err
            \/ DPIDunpack(lldp.chassis_id).err
            \/ UBInt16unpack(lldp.port_id).err) =>
        /\ last.outcome = "dropped"
        /\ app = last.app_before

\* C8 (as claimed): a well-formed probe whose dpid no registered switch has
\* is skipped silently: no link event and no error.
C8_LookupMissSkipped ==
    (/\ Handled
     /\ LastLLDP
     /\ FrameChassisId(last.event.data) # <<>>
     /\ FramePortId(last.event.data) # -1
     /\ \A o \in Objs :
            IsRegistered(o) => sw[o].dpid # FrameChassisId(last.event.data)) =>
        /\ last.outcome \in {"ignored", "dropped"}
        /\ app = last.app_before

\* ---------------------------------------------------------------- Prober
\* C9 (as claimed): when an error is raised while one switch is processed,
\* every supported switch later in the list that has a port to probe still
\* gets a command in that tick.
C9_ErrorDoesNotAbortTick ==
    pc = "raised" =>
        \A k \in (si + 1)..Len(snapshot) :
            (/\ Supported(snapshot[k])
             /\ LivePorts(sw[snapshot[k]].interfaces) \ {LocalPort} # {})
            => \E i \in TickOut : msg_out[i].destination = snapshot[k]

\* --------------------------------------------------------------- Builder
\* C10: build_lldp_packet_out with a version other than 0x01 and 0x04
\* returns None, whatever the port and the data, and lines 55-60 put
\* nothing on msg_out for it.
C10_UnsupportedVersionNoCommand ==
    (calls > 0 /\ built.version \notin {1, 4}) =>
        /\ built.result = None
        /\ \A o \in Objs : Publish(msg_out, o, built.result) = msg_out

\* The builder was called with version 0x05, the local port and a frame.
C10_Witness ==
    /\ calls > 0
    /\ built.version = 5
    /\ built.port_number = 65534
    /\ built.data # <<>>
    /\ built.result = None


\* C12: every command build_lldp_packet_out returns for version 0x01 or
\* 0x04 has exactly one action, an output to the port_number given, has
\* the data given as its body, and is a message and an action of the
\* family of that version, never of the two mixed.
C12_CommandShape ==
    (calls > 0 /\ built.version \in {1, 4}) =>
        /\ built.result # None
        /\ Len(built.result.actions) = 1
        /\ built.result.actions[1].port = built.port_number
        /\ built.result.data = built.data
        /\ built.result.family = built.version
        /\ built.result.actions[1].family = built.version

\* The builder was called with version 0x04, a port above 255 and a frame.
C12_Witness ==
    /\ calls > 0
    /\ built.version = 4
    /\ built.port_number = 300
    /\ built.data = ProbeFrame(DpidOf(1), 3, AddressOf(1, 3))
    /\ built.result # None

\* ------------------------------------------------------------ Correlator
\* C13 (as claimed): bytes that do not decode as an Ethernet header are
\* dropped by the handler: no link event, no error out of the handler.
C13_EthernetFailureDropped ==
    (Handled /\ Ethernetunpack(last.event.data).err) =>
        /\ last.outcome \in {"ignored", "dropped"}
        /\ app = last.app_before

\* C13 (amended): bytes that do not decode as an Ethernet header make the
\* handler end with the decode error, uncaught, and no link event.
C13_EthernetFailurePropagates ==
    (Handled /\ Ethernetunpack(last.event.data).err) =>
        /\ last.outcome = "struct.error"
        /\ app = last.app_before

\* Three bytes were handled after a link had been put.
C13_Witness ==
    /\ Handled
    /\ Len(last.event.data) = 3
    /\ last.outcome = "struct.error"
    /\ Len(app) = 1

\* The link a frame stands for, read from the event and the inventory alone.
LinkOf(event) ==
    [switch_a |-> [id |-> DpidOf(event.source), port |-> event.in_port],
     switch_b |-> [id |-> FrameChassisId(event.data),
                   port |-> FramePortId(event.data)]]

Correlates(event) ==
    /\ FrameEthernet(event.data).ether_type = 35020
    /\ FrameChassisId(event.data) # <<>>
    /\ FramePortId(event.data) # -1
    /\ \E o \in Objs : IsRegistered(o) /\ sw[o].dpid = FrameChassisId(event.data)

\* C16: app holds at most one link per event handled, and the prober has
\* sent nothing; whether the last event put a link, and which, is decided by
\* its bytes, source and in_port and by the inventory lookup alone, whatever
\* was handled before: a frame that was already correlated yields its link
\* again.
C16_Stateless ==
    /\ Len(app) <= events
    /\ msg_out = <<>>
    /\ Handled =>
          /\ (last.outcome = "put") = Correlates(last.event)
          /\ app = IF Correlates(last.event)
                   THEN Append(last.app_before, LinkOf(last.event))
                   ELSE last.app_before

\* The same frame was handled twice and its link is on app twice.
C16_Witness ==
    /\ events = 2
    /\ Len(app) = 2
    /\ app[1] = app[2]
    /\ msg_out = <<>>


\* -------------------------------------------------- concurrent handlers
AllDone == \A o \in Objs : hs[o].pc = "done"

\* C11: handlers running concurrently for well-formed probes, one per
\* connection, put one link event each: app holds as many links as handlers
\* have finished, and when all have, exactly one link per event, made of
\* the ends of that event alone.
C11_IndependentLinks ==
    /\ Len(app) = Cardinality({o \in Objs : hs[o].pc = "done"})
    /\ \A o \in Objs : hs[o].pc \notin {"raised", "returned"}
    /\ \A o \in Objs :
          hs[o].pc = "done" =>
              Cardinality({i \in 1..Len(app) : app[i] = LinkOf(hs[o].event)}) = 1
    /\ AllDone => Len(app) = NSwitch

\* All handlers are done; the last connection's link was put first, and
\* two events name different originators and ports.
C11_Witness ==
    /\ AllDone
    /\ app[1].switch_a.id = DpidOf(NSwitch)
    /\ app[1].switch_b # app[2].switch_b
    /\ app[1].switch_b.port # app[2].switch_b.port
    /\ app[1].switch_a.port # app[2].switch_a.port


\* -------------------------------------------------- ticks and inventory
\* A tick has started and execute has returned or raised.
TickEnded == ticks > 0 /\ pc \in {"idle", "raised"}

RegisteredAtStart(o) ==
    \E k \in 1..Len(at_start.switches) : at_start.switches[k] = o

SupportedAtStart(o) ==
    at_start.sw[o].connected /\ at_start.sw[o].version \in {1, 4}

\* The (switch, port) pairs of the inventory as it was when the current
\* (or last) tick started.
EligiblePairsAtStart ==
    {pair \in Objs \X Ports :
        /\ RegisteredAtStart(pair[1])
        /\ SupportedAtStart(pair[1])
        /\ pair[2] \in LivePorts(at_start.sw[pair[1]].interfaces)
        /\ pair[2] # 65534}

\* C14 (as claimed): the commands of a tick are for pairs that were
\* eligible in the inventory as it was when the tick started; whatever the
\* inventory has become since, the tick does not raise and, when it has
\* ended, it has published exactly one command for each of those pairs.
C14_TickOverSnapshot ==
    ticks > 0 =>
        /\ pc # "raised"
        /\ \A i \in TickOut :
              <<msg_out[i].destination, OutPort(i)>> \in EligiblePairsAtStart
        /\ TickEnded =>
              /\ \A pair \in EligiblePairsAtStart :
                    Cardinality({i \in TickOut :
                                    /\ msg_out[i].destination = pair[1]
                                    /\ OutPort(i) = pair[2]}) = 1
              /\ Cardinality(TickOut) = Cardinality(EligiblePairsAtStart)

\* The commands of the tick before the last one, which end at tick_base,
\* when every tick has published `n` commands.
SameAsLastTick(n) ==
    /\ Len(msg_out) = ticks * n
    /\ \A i \in 1..tick_base : msg_out[i] = msg_out[tick_base + ((i - 1) % n) + 1]

\* C15: a tick leaves the registry and every switch object as they were
\* when it started, puts nothing on app and only appends to msg_out; when a
\* tick is over, every tick so far over this inventory has published the
\* same commands as the last one.
C15_TicksIndependent ==
    /\ [](/\ ticks > 0 => at_start = [switches |-> switches, sw |-> sw]
          /\ app = <<>>
          /\ TickOver => SameAsLastTick(Len(msg_out) - tick_base))
    /\ [][/\ UNCHANGED inventory
          /\ Len(msg_out') >= Len(msg_out)
          /\ SubSeq(msg_out', 1, Len(msg_out)) = msg_out]_vars

\* The second tick is over; each tick published at least two commands.
C15_Witness ==
    /\ TickOver
    /\ ticks = 2
    /\ tick_base >= 2
    /\ Len(msg_out) = 2 * tick_base
    /\ Cardinality({msg_out[i].destination : i \in TickOut}) > 1

\* C17 (as claimed): when a tick has ended, a switch that was registered,
\* connected and of a supported version when the tick started, and that
\* nothing has changed since, has got a command for each of its ports
\* other than 65534; one that was not registered or not connected, and that
\* nothing has changed since, has got none.
C17_SelfHealing ==
    TickEnded =>
        \A o \in Objs \ touched :
            /\ (RegisteredAtStart(o) /\ SupportedAtStart(o)) =>
                  \A p \in LivePorts(at_start.sw[o].interfaces) \ {LocalPort} :
                      \E i \in TickOut : /\ msg_out[i].destination = o
                                         /\ OutPort(i) = p
            /\ (~ RegisteredAtStart(o) \/ ~ at_start.sw[o].connected) =>
                  \A i \in TickOut : msg_out[i].destination # o

=============================================================================
